---------------------------- MODULE Spec2Model ----------------------------
(***************************************************************************)
(* M/M/c queueing metric engine (calc.py) and the two sweep-facing         *)
(* wait-time functions (plot.py, contour.py).                              *)
(*                                                                         *)
(* Number model.  A Python float is modelled as an exact rational n/d in   *)
(* lowest terms, or +inf / -inf / nan.  The finite range of the float is   *)
(* kept: a finite result whose magnitude exceeds FloatMax (the stand-in    *)
(* for sys.float_info.max) becomes inf for + - * /, and raises             *)
(* OverflowError for ** and for the int -> float conversion, exactly the   *)
(* split CPython makes.  A raised exception is modelled as a value of kind *)
(* "ZeroDivisionError" / "OverflowError" that every later operation        *)
(* propagates, so the value of a function is either what it returns or     *)
(* the exception that escapes from it.  Rounding to 53 bits and underflow  *)
(* to zero are not modelled.  A Python int is a TLA+ integer.              *)
(***************************************************************************)
EXTENDS Integers, Sequences, FiniteSets, TLC

\* Largest finite float magnitude of the model (sys.float_info.max, scaled).
FloatMax == 16384
\* Largest ordinary server count that is drawn as an input.
MaxC == 8
\* An int too large to convert to a float (such as 10**400 in CPython).
HugeC == FloatMax + 1

Abs(i) == IF i < 0 THEN -i ELSE i

RECURSIVE GCD(_, _)
GCD(a, b) == IF b = 0 THEN a ELSE GCD(b, a % b)

-----------------------------------------------------------------------------
(* Float values and raised exceptions *)

\* A value is <<kind, n, d>>: n/d for kind "fin", the sign n for kind "inf".
Fin(n, d) == <<"fin", n, d>>
Inf(s)    == <<"inf", s, 0>>
NaN       == <<"nan", 0, 0>>
ZeroDivisionError == <<"ZeroDivisionError", 0, 0>>
OverflowError     == <<"OverflowError", 0, 0>>

Kind(x) == x[1]
Num(x)  == x[2]
Den(x)  == x[3]

Zero == Fin(0, 1)
One  == Fin(1, 1)

IsErr(x)    == Kind(x) \in {"ZeroDivisionError", "OverflowError"}
IsFin(x)    == Kind(x) = "fin"
IsNaN(x)    == Kind(x) = "nan"
IsInf(x)    == Kind(x) = "inf"
IsNumber(x) == Kind(x) \in {"fin", "inf", "nan"}
IsZero(x)   == Kind(x) = "fin" /\ Num(x) = 0
Sign(x)     == IF Num(x) > 0 THEN 1 ELSE IF Num(x) < 0 THEN -1 ELSE 0

\* n/d in lowest terms, d > 0.
Norm(n, d) == LET g == GCD(Abs(n), d) IN Fin(n \div g, d \div g)

\* |n|/d > FloatMax, without forming FloatMax * d.
TooBig(n, d) == LET q == Abs(n) \div d
                IN  q > FloatMax \/ (q = FloatMax /\ Abs(n) % d > 0)

\* The float a finite result n/d becomes: inf once out of range.
Round(n, d) == IF TooBig(n, d) THEN Inf(IF n > 0 THEN 1 ELSE -1) ELSE Norm(n, d)

\* int -> float conversion (PyLong_AsDouble): OverflowError when out of range.
ToFloat(i) == IF Abs(i) > FloatMax THEN OverflowError ELSE Fin(i, 1)

\* Python ints keep their full width; the model never needs n! beyond the
\* first factorial that no longer converts to a float.
RECURSIVE Factorial(_)
Factorial(n) == IF n <= 0 THEN 1 ELSE n * Factorial(n - 1)

-----------------------------------------------------------------------------
(* Float arithmetic (float_add, float_sub, float_mul, float_div, float_pow) *)

Neg(x) == IF IsErr(x) \/ IsNaN(x) THEN x
          ELSE IF IsInf(x) THEN Inf(-Num(x)) ELSE Fin(-Num(x), Den(x))

Add(x, y) ==
    IF IsErr(x) THEN x ELSE IF IsErr(y) THEN y
    ELSE IF IsNaN(x) \/ IsNaN(y) THEN NaN
    ELSE IF IsInf(x) /\ IsInf(y) THEN (IF Num(x) = Num(y) THEN x ELSE NaN)
    ELSE IF IsInf(x) THEN x
    ELSE IF IsInf(y) THEN y
    ELSE LET g == GCD(Den(x), Den(y))
         IN  Round(Num(x) * (Den(y) \div g) + Num(y) * (Den(x) \div g), (Den(x) \div g) * Den(y))

Sub(x, y) == Add(x, Neg(y))

Mul(x, y) ==
    IF IsErr(x) THEN x ELSE IF IsErr(y) THEN y
    ELSE IF IsNaN(x) \/ IsNaN(y) THEN NaN
    ELSE IF IsInf(x) \/ IsInf(y)
         THEN (IF Sign(x) * Sign(y) = 0 THEN NaN ELSE Inf(Sign(x) * Sign(y)))
    ELSE LET g1 == GCD(Abs(Num(x)), Den(y))
             g2 == GCD(Abs(Num(y)), Den(x))
         IN  Round((Num(x) \div g1) * (Num(y) \div g2), (Den(x) \div g2) * (Den(y) \div g1))

\* float_div raises ZeroDivisionError for every dividend when the divisor is 0.
Div(x, y) ==
    IF IsErr(x) THEN x ELSE IF IsErr(y) THEN y
    ELSE IF IsZero(y) THEN ZeroDivisionError
    ELSE IF IsNaN(x) \/ IsNaN(y) THEN NaN
    ELSE IF IsInf(x) /\ IsInf(y) THEN NaN
    ELSE IF IsInf(x) THEN Inf(Sign(x) * Sign(y))
    ELSE IF IsInf(y) THEN Zero
    ELSE Mul(x, Fin(Sign(y) * Den(y), Abs(Num(y))))

\* x ** n for an int n >= 0: x ** 0 is 1.0; a finite power out of range raises
\* OverflowError (errno ERANGE in float_pow) instead of returning inf.
RECURSIVE Pow(_, _)
Pow(x, n) ==
    IF IsErr(x) THEN x
    ELSE IF n = 0 THEN One
    ELSE LET p == Pow(x, n - 1)
             m == Mul(p, x)
         IN  IF IsErr(p) THEN p
             ELSE IF IsFin(p) /\ IsFin(x) /\ IsInf(m) THEN OverflowError
             ELSE m

\* a/b < c/d for a, c >= 0 and b, d > 0, by comparing continued fractions
\* (no product of the operands is formed).
RECURSIVE FracLt(_, _, _, _)
FracLt(a, b, c, d) ==
    LET q1 == a \div b
        q2 == c \div d
        r1 == a % b
        r2 == c % d
    IN  IF q1 # q2 THEN q1 < q2
        ELSE IF r2 = 0 THEN FALSE
        ELSE IF r1 = 0 THEN TRUE
        ELSE FracLt(d, r2, b, r1)

\* Comparisons: false whenever an operand is nan.
Lt(x, y) ==
    /\ IsNumber(x) /\ IsNumber(y) /\ ~IsNaN(x) /\ ~IsNaN(y)
    /\ IF IsInf(x) /\ IsInf(y) THEN Num(x) < Num(y)
       ELSE IF IsInf(x) THEN Num(x) < 0
       ELSE IF IsInf(y) THEN Num(y) > 0
       ELSE IF Num(x) < 0 /\ Num(y) >= 0 THEN TRUE
       ELSE IF Num(x) >= 0 /\ Num(y) < 0 THEN FALSE
       ELSE IF Num(x) < 0 THEN FracLt(-Num(y), Den(y), -Num(x), Den(x))
       ELSE FracLt(Num(x), Den(x), Num(y), Den(y))
Eq(x, y) == IsNumber(x) /\ IsNumber(y) /\ ~IsNaN(x) /\ x = y
Le(x, y) == Lt(x, y) \/ Eq(x, y)
Ge(x, y) == Le(y, x)
Gt(x, y) == Lt(y, x)

-----------------------------------------------------------------------------
(* calc.py *)

\* One term of the partial sum: ((c * rho)**n) / math.factorial(n).
ErlangTerm(rho, c, n) ==
    Div(Pow(Mul(ToFloat(c), rho), n), ToFloat(Factorial(n)))

\* for n in range(c): sum_terms += ...   (left at the first exception)
RECURSIVE SumTerms(_, _, _, _)
SumTerms(rho, c, n, acc) ==
    IF n >= c THEN acc
    ELSE LET s == Add(acc, ErlangTerm(rho, c, n))
         IN  IF IsErr(s) THEN s ELSE SumTerms(rho, c, n + 1, s)

\* calculate_lq with the factor (1 - rho) left out of pc_numerator.
calculate_lq_no_idle_factor(rho, c) ==
    IF Ge(rho, One) THEN Inf(1)
    ELSE LET sum_terms    == SumTerms(rho, c, 0, Zero)
             pc_numerator == Div(Pow(Mul(ToFloat(c), rho), c),
                                 ToFloat(Factorial(c)))
             pc           == Div(pc_numerator, Add(sum_terms, pc_numerator))
             lq           == Div(Mul(pc, rho), Sub(One, rho))
         IN  IF IsErr(sum_terms) THEN sum_terms ELSE lq

\* calculate_lq returning pc / (1 - rho): the factor rho left out of lq.
calculate_lq_no_rho(rho, c) ==
    IF Ge(rho, One) THEN Inf(1)
    ELSE LET sum_terms    == SumTerms(rho, c, 0, Zero)
             pc_numerator == Div(Pow(Mul(ToFloat(c), rho), c),
                                 Mul(ToFloat(Factorial(c)), Sub(One, rho)))
             pc           == Div(pc_numerator, Add(sum_terms, pc_numerator))
             lq           == Div(pc, Sub(One, rho))
         IN  IF IsErr(sum_terms) THEN sum_terms ELSE lq

calculate_lq(rho, c) ==
    IF Ge(rho, One) THEN Inf(1)
    ELSE LET sum_terms    == SumTerms(rho, c, 0, Zero)
             pc_numerator == Div(Pow(Mul(ToFloat(c), rho), c),
                                 Mul(ToFloat(Factorial(c)), Sub(One, rho)))
             pc           == Div(pc_numerator, Add(sum_terms, pc_numerator))
             lq           == Div(Mul(pc, rho), Sub(One, rho))
         IN  IF IsErr(sum_terms) THEN sum_terms ELSE lq

\* calculate_wq on an array-style division: inf for a zero divisor, no exception.
calculate_wq_silent(lq, mu) == IF IsZero(mu) THEN Inf(1) ELSE Div(lq, mu)

calculate_wq(lq, mu) == Div(lq, mu)

calculate_rho(lambda_val, mu, c) == Div(lambda_val, Mul(ToFloat(c), mu))

calculate_lambda(rho, mu, c) == Mul(Mul(rho, ToFloat(c)), mu)

\* calculate_mu with the server count left out of the divisor.
calculate_mu_no_servers(lambda_val, rho, c) == Div(lambda_val, rho)

calculate_mu(lambda_val, rho, c) == Div(lambda_val, Mul(rho, ToFloat(c)))

-----------------------------------------------------------------------------
(* plot.py *)

\* The value of the local lq when calculate_wq_for_plot is left, Unset when
\* the function is left before lq is assigned.
Unset == <<"unset", 0, 0>>

\* except (ValueError, OverflowError): return np.nan
Caught(x) == x = OverflowError

plot_lq(arrival_rate, service_rate, servers) ==
    LET capacity == Mul(ToFloat(servers), service_rate)
        rho      == calculate_rho(arrival_rate, service_rate, servers)
        lq       == calculate_lq(rho, servers)
    IN  IF IsErr(capacity) THEN Unset
        ELSE IF Ge(arrival_rate, capacity) \/ Le(service_rate, Zero) THEN Unset
        ELSE IF IsErr(rho) \/ Ge(rho, One) THEN Unset
        ELSE IF IsErr(lq) THEN Unset
        ELSE lq

calculate_wq_for_plot(arrival_rate, service_rate, servers) ==
    LET capacity == Mul(ToFloat(servers), service_rate)
        rho      == calculate_rho(arrival_rate, service_rate, servers)
        lq       == calculate_lq(rho, servers)
        wq       == calculate_wq(lq, service_rate)
    IN  IF IsErr(capacity) THEN capacity
        ELSE IF Ge(arrival_rate, capacity) \/ Le(service_rate, Zero) THEN NaN
        ELSE IF IsErr(rho) THEN rho
        ELSE IF Ge(rho, One) THEN NaN
        ELSE IF Caught(wq) THEN NaN
        ELSE IF IsErr(wq) THEN wq
        ELSE IF Eq(arrival_rate, Zero) THEN Zero
        ELSE wq

-----------------------------------------------------------------------------
(* contour.py *)

\* sum((r**n) / math.factorial(n) for n in range(servers))
RECURSIVE SumTerm(_, _, _, _)
SumTerm(r, servers, n, acc) ==
    IF n >= servers THEN acc
    ELSE LET s == Add(acc, Div(Pow(r, n), ToFloat(Factorial(n))))
         IN  IF IsErr(s) THEN s ELSE SumTerm(r, servers, n + 1, s)

\* The body of the try block: r, sum_term, final_term, p0.
contour_p0(arrival_rate, service_rate, servers, rho) ==
    LET r          == Div(arrival_rate, service_rate)
        sum_term   == SumTerm(r, servers, 0, Zero)
        final_term == Mul(Div(Pow(r, servers), ToFloat(Factorial(servers))),
                          Div(One, Sub(One, rho)))
    IN  Div(One, Add(sum_term, final_term))

\* lq = ((r**servers * rho) / (math.factorial(servers) * (1 - rho)**2)) * p0,
\* the statement after the try block.
contour_lq_stmt(arrival_rate, service_rate, servers, rho, p0) ==
    LET r == Div(arrival_rate, service_rate)
    IN  Mul(Div(Mul(Pow(r, servers), rho),
                Mul(ToFloat(Factorial(servers)), Pow(Sub(One, rho), 2))),
            p0)

\* The value of the local lq when calculate_average_queue_time is left.
contour_lq(arrival_rate, service_rate, servers) ==
    LET capacity == Mul(ToFloat(servers), service_rate)
        rho      == calculate_rho(arrival_rate, service_rate, servers)
        p0       == contour_p0(arrival_rate, service_rate, servers, rho)
        lq       == contour_lq_stmt(arrival_rate, service_rate, servers, rho, p0)
    IN  IF IsErr(capacity) THEN Unset
        ELSE IF Ge(arrival_rate, capacity) \/ Le(service_rate, Zero) THEN Unset
        ELSE IF IsErr(rho) \/ Ge(rho, One) THEN Unset
        ELSE IF IsErr(p0) \/ IsErr(lq) THEN Unset
        ELSE lq

calculate_average_queue_time(arrival_rate, service_rate, servers) ==
    LET capacity == Mul(ToFloat(servers), service_rate)
        rho      == calculate_rho(arrival_rate, service_rate, servers)
        p0       == contour_p0(arrival_rate, service_rate, servers, rho)
        lq       == contour_lq_stmt(arrival_rate, service_rate, servers, rho, p0)
    IN  IF IsErr(capacity) THEN capacity
        ELSE IF Ge(arrival_rate, capacity) \/ Le(service_rate, Zero) THEN NaN
        ELSE IF IsErr(rho) THEN rho
        ELSE IF Ge(rho, One) THEN NaN
        ELSE IF Caught(p0) THEN NaN
        ELSE IF IsErr(p0) THEN p0
        ELSE IF IsErr(lq) THEN lq
        ELSE IF Eq(arrival_rate, Zero) THEN Zero
        ELSE Div(lq, arrival_rate)

-----------------------------------------------------------------------------
(* The engine as a state machine: a caller invokes one function at a time,  *)
(* on inputs of its own or on the value the previous call returned.         *)

VARIABLES
    fn,        \* the function invoked last ("none" before the first call)
    args,      \* its arguments, in parameter order
    ret,       \* the value it returned, or the exception that escaped
    local_lq,  \* the local lq of a sweep function when it was left
    src        \* the call whose return value was passed in, or NoCall

vars == <<fn, args, ret, local_lq, src>>

NoArgs == <<>>
NoCall == <<"none", NoArgs, Unset>>

\* Inputs.  Rates of the grid, the three scenarios of the specification
\* (lambda = 100, 0, 130 at mu = 20), and a service rate at the top of the
\* float range.
Lambdas   == {Zero, One, Fin(2, 1), Fin(3, 1), Fin(5, 1), Fin(7, 1)}
Mus       == {Fin(-1, 1), Zero, One, Fin(2, 1)}
Scenarios == {<<Fin(100, 1), Fin(20, 1)>>, <<Zero, Fin(20, 1)>>,
              <<Fin(130, 1), Fin(20, 1)>>}
Rates     == (Lambdas \X Mus) \cup Scenarios
BigMu     == Fin(FloatMax, 1)
Rhos      == {Zero, Fin(1, 4), Fin(1, 2), Fin(3, 4), Fin(5, 6), One, Fin(3, 2)}
Lqs       == {Zero, Fin(1, 2), Fin(3, 1), Inf(1), NaN}
Servers   == (0 .. MaxC) \cup {HugeC}

Init ==
    /\ fn = "none"
    /\ args = NoArgs
    /\ ret = Unset
    /\ local_lq = Unset
    /\ src = NoCall

ThisCall == <<fn, args, ret>>

\* The call f(a) ends: it returned r, or r escaped from it.
Return(f, a, r, l, s) ==
    /\ fn' = f
    /\ args' = a
    /\ ret' = r
    /\ local_lq' = l
    /\ src' = s


CalculateRho ==
    \E lm \in Rates \cup (Lambdas \X {BigMu}), c \in Servers :
        Return("calculate_rho", <<lm[1], lm[2], c>>,
               calculate_rho(lm[1], lm[2], c),
               Unset, NoCall)

CalculateLambda ==
    \E rho \in Rhos, mu \in Mus, c \in Servers :
        Return("calculate_lambda", <<rho, mu, c>>,
               calculate_lambda(rho, mu, c),
               Unset, NoCall)

\* calculate_lambda(calculate_rho(lambda, mu, c), mu, c)
CalculateLambdaOfRho ==
    /\ fn = "calculate_rho" /\ IsNumber(ret)
    /\ fn' = "calculate_lambda"
    /\ args' = <<ret, args[2], args[3]>>
    /\ ret' = calculate_lambda(ret, args[2], args[3])
    /\ local_lq' = Unset
    /\ src' = ThisCall

CalculateMu ==
    \E lambda_val \in Lambdas, rho \in Rhos, c \in Servers :
        Return("calculate_mu", <<lambda_val, rho, c>>,
               calculate_mu(lambda_val, rho, c),
               Unset, NoCall)

\* calculate_mu(lambda, calculate_rho(lambda, mu, c), c)
CalculateMuOfRho ==
    /\ fn = "calculate_rho" /\ IsNumber(ret)
    /\ fn' = "calculate_mu"
    /\ args' = <<args[1], ret, args[3]>>
    /\ ret' = calculate_mu(args[1], ret, args[3])
    /\ local_lq' = Unset
    /\ src' = ThisCall

CalculateLq ==
    \E rho \in Rhos, c \in Servers :
        Return("calculate_lq", <<rho, c>>,
               calculate_lq(rho, c),
               Unset, NoCall)

\* calculate_lq(calculate_rho(lambda, mu, c), c)
CalculateLqOfRho ==
    /\ fn = "calculate_rho" /\ IsNumber(ret)
    /\ fn' = "calculate_lq"
    /\ args' = <<ret, args[3]>>
    /\ ret' = calculate_lq(ret, args[3])
    /\ local_lq' = Unset
    /\ src' = ThisCall

CalculateWq ==
    \E lq \in Lqs, mu \in Mus :
        Return("calculate_wq", <<lq, mu>>,
               calculate_wq(lq, mu),
               Unset, NoCall)

CalculateWqForPlot ==
    \E lm \in Rates, c \in Servers :
        Return("calculate_wq_for_plot", <<lm[1], lm[2], c>>,
               calculate_wq_for_plot(lm[1], lm[2], c),
               plot_lq(lm[1], lm[2], c), NoCall)

CalculateAverageQueueTime ==
    \E lm \in Rates, c \in Servers :
        Return("calculate_average_queue_time", <<lm[1], lm[2], c>>,
               calculate_average_queue_time(lm[1], lm[2], c),
               contour_lq(lm[1], lm[2], c), NoCall)

Next ==
    \/ CalculateRho
    \/ CalculateLambda
    \/ CalculateLambdaOfRho
    \/ CalculateMu
    \/ CalculateMuOfRho
    \/ CalculateLq
    \/ CalculateLqOfRho
    \/ CalculateWq
    \/ CalculateWqForPlot
    \/ CalculateAverageQueueTime

Spec == Init /\ [][Next]_vars

-----------------------------------------------------------------------------
(* Vocabulary of the properties.  Conditions on the inputs are stated over  *)
(* the exact rationals, independently of the float operations above.        *)

InSweep == fn \in {"calculate_wq_for_plot", "calculate_average_queue_time"}

\* l < c * m and l >= c * m, exactly.
ExactLt(l, m, c) == Num(l) * Den(m) < c * Num(m) * Den(l)
ExactGe(l, m, c) == ~ExactLt(l, m, c)
Positive(x) == IsFin(x) /\ Num(x) > 0
NonNeg(x)   == IsFin(x) /\ Num(x) >= 0

\* A stable input of a sweep function: lambda >= 0, mu > 0, c >= 1, lambda < c mu.
StableSweep ==
    /\ InSweep
    /\ NonNeg(args[1]) /\ Positive(args[2]) /\ args[3] >= 1
    /\ ExactLt(args[1], args[2], args[3])

\* The server count converts to a float.
Convertible(c) == c <= FloatMax

\* A call that was given the value returned by calculate_rho(lambda, mu, c).
OfRho(f) == fn = f /\ src[1] = "calculate_rho"
RhoLambda == src[2][1]
RhoMu     == src[2][2]
RhoC      == src[2][3]

-----------------------------------------------------------------------------
(* C1 *)

\* C1: for every input with lambda >= c*mu or mu <= 0, calculate_wq_for_plot
\* and calculate_average_queue_time return NaN (no exception, no finite value).
C1_UnstableIsNaN ==
    (InSweep /\ (ExactGe(args[1], args[2], args[3]) \/ ~Positive(args[2])))
        => IsNaN(ret)

\* The same for server counts that convert to a float: the guard returns NaN.
UnstableIsNaNConvertible ==
    (/\ InSweep /\ Convertible(args[3])
     /\ (ExactGe(args[1], args[2], args[3]) \/ ~Positive(args[2])))
        => IsNaN(ret)

\* The guard has refused an unstable input and an input with mu <= 0.
UnstableIsNaNReached ==
    /\ fn = "calculate_wq_for_plot" /\ IsNaN(ret)
    /\ args[1] = Fin(130, 1) /\ args[2] = Fin(20, 1) /\ args[3] = 6

-----------------------------------------------------------------------------
(* C2 *)

\* The mean queue length for rho = lambda / (c mu), by calculate_lq.
LqOf(l, m, c) == calculate_lq(calculate_rho(l, m, c), c)

\* C2: on a stable input with lambda > 0 the Wq a sweep function returns is
\* Lq / lambda (Little's law), so Wq * lambda = Lq, for both entry points.
C2_LittlesLaw ==
    (StableSweep /\ Positive(args[1]) /\ IsFin(ret))
        => Mul(ret, args[1]) = LqOf(args[1], args[2], args[3])

\* What calculate_wq_for_plot returns instead: Lq / mu, through calculate_wq.
PlotIsLqOverMu ==
    (fn = "calculate_wq_for_plot" /\ StableSweep /\ Positive(args[1]) /\ IsFin(ret))
        => Mul(ret, args[2]) = LqOf(args[1], args[2], args[3])

\* calculate_average_queue_time does satisfy Little's law.
ContourLittlesLaw ==
    (fn = "calculate_average_queue_time" /\ StableSweep /\ Positive(args[1])
     /\ IsFin(ret))
        => Mul(ret, args[1]) = LqOf(args[1], args[2], args[3])

-----------------------------------------------------------------------------
(* C3 *)

\* c and c * mu are within the float range.
InRange(m, c) == Convertible(c) /\ c * Num(m) <= FloatMax * Den(m)

RoundTripAnyRange ==
    /\ (fn = "calculate_rho" /\ NonNeg(args[1]) /\ Positive(args[2]) /\ args[3] >= 1)
          => IsNumber(ret)
    /\ (OfRho("calculate_lambda") /\ NonNeg(RhoLambda) /\ Positive(RhoMu) /\ RhoC >= 1)
          => ret = RhoLambda

-----------------------------------------------------------------------------
(* C4 *)

\* C4: for every c >= 1 and rho in [0, 1) (a stable input), the Lq computed
\* inside calculate_average_queue_time from P0 equals calculate_lq(rho, c).
C4_FormsAgree ==
    (fn = "calculate_average_queue_time" /\ StableSweep)
        => /\ IsNumber(local_lq)
           /\ local_lq = LqOf(args[1], args[2], args[3])

\* Wherever either form yields a value the other yields the same value.
FormsAgreeWhereComputed ==
    (fn = "calculate_average_queue_time" /\ StableSweep)
        => \/ local_lq = LqOf(args[1], args[2], args[3])
           \/ (local_lq = Unset /\ IsErr(LqOf(args[1], args[2], args[3])))

-----------------------------------------------------------------------------
(* C5 *)

\* C5: for lambda = 0, mu > 0 and c >= 1 both sweep functions return 0 (not
\* NaN, not an exception), and calculate_lq(0, c) returns 0.
C5_NoArrivalsIsZero ==
    /\ (StableSweep /\ IsZero(args[1])) => ret = Zero
    /\ (fn = "calculate_lq" /\ IsZero(args[1]) /\ args[2] >= 1) => ret = Zero

\* The same where no factorial or power leaves the float range.
NoArrivalsIsZeroOrOverflow ==
    /\ (StableSweep /\ IsZero(args[1]) /\ Convertible(args[3]))
          => \/ ret = Zero
             \/ /\ IsNaN(ret)
                /\ IsErr(LqOf(args[1], args[2], args[3]))
    /\ (fn = "calculate_lq" /\ IsZero(args[1]) /\ args[2] >= 1)
          => (ret = Zero \/ ret = OverflowError)

-----------------------------------------------------------------------------
(* C6 *)

\* C6: a zero divisor is signalled by an exception, never by a returned value:
\* calculate_rho when c * mu = 0, calculate_mu when rho * c = 0, calculate_wq
\* when mu = 0 (for every lq, 0 and inf included).
C6_ZeroDivisorRaises ==
    /\ (fn = "calculate_rho" /\ (args[3] = 0 \/ IsZero(args[2]))) => IsErr(ret)
    /\ (fn = "calculate_mu" /\ (args[3] = 0 \/ IsZero(args[2]))) => IsErr(ret)
    /\ (fn = "calculate_wq" /\ IsZero(args[2])) => IsErr(ret)

\* calculate_wq(inf, 0) has raised ZeroDivisionError.
C6_ZeroDivisorReached ==
    fn = "calculate_wq" /\ args = <<Inf(1), Zero>> /\ ret = ZeroDivisionError

-----------------------------------------------------------------------------
(* C7 *)

\* lo/100 <= x <= hi/100, exactly.
Within(x, lo, hi) ==
    IsFin(x) /\ lo * Den(x) <= 100 * Num(x) /\ 100 * Num(x) <= hi * Den(x)

Scenario6 ==
    /\ OfRho("calculate_lq")
    /\ RhoLambda = Fin(100, 1) /\ RhoMu = Fin(20, 1) /\ RhoC = 6

\* C7: calculate_lq(calculate_rho(100, 20, 6), 6) is within 0.05 of 3.43.
C7_ScenarioLq == Scenario6 => Within(ret, 338, 348)

\* C7, amended: calculate_lq(calculate_rho(100, 20, 6), 6) is 15625/5319,
\* about 2.9376: within 0.05 of 2.94.
C7_ScenarioLqIs294 == Scenario6 => Within(ret, 289, 299)

\* The scenario has been computed: rho = 5/6 and Lq = 15625/5319.
C7_ScenarioReached ==
    Scenario6 /\ args = <<Fin(5, 6), 6>> /\ ret = Fin(15625, 5319)

-----------------------------------------------------------------------------
(* C8 *)

\* C8: for c = 1 and rho in [0, 1), calculate_lq(rho, 1) = rho^2 / (1 - rho);
\* with rho = p/q this is p^2 / (q (q - p)).
C8_MM1 ==
    (/\ fn = "calculate_lq" /\ args[2] = 1
     /\ NonNeg(args[1]) /\ Num(args[1]) < Den(args[1]))
        => ret = Norm(Num(args[1]) * Num(args[1]),
                      Den(args[1]) * (Den(args[1]) - Num(args[1])))

\* calculate_lq(3/4, 1) has returned 9/4.
C8_MM1Reached ==
    fn = "calculate_lq" /\ args = <<Fin(3, 4), 1>> /\ ret = Fin(9, 4)

-----------------------------------------------------------------------------
(* C9 *)

\* C9: for every c >= 1 and rho1 < rho2 in (0, 1), calculate_lq(rho1, c) <
\* calculate_lq(rho2, c); for rho >= 1 calculate_lq returns inf, above every
\* value returned for rho < 1.
C9_Monotone ==
    (/\ fn = "calculate_lq" /\ src = NoCall /\ args[2] >= 1
     /\ Positive(args[1]) /\ Num(args[1]) < Den(args[1]))
        => \A rho2 \in Rhos :
              /\ (Lt(args[1], rho2) /\ Lt(rho2, One))
                    => Lt(ret, calculate_lq(rho2, args[2]))
              /\ Ge(rho2, One)
                    => /\ calculate_lq(rho2, args[2]) = Inf(1)
                       /\ Lt(ret, calculate_lq(rho2, args[2]))

\* The same wherever calculate_lq returns for both utilizations.
MonotoneWhereReturned ==
    (/\ fn = "calculate_lq" /\ src = NoCall /\ args[2] >= 1
     /\ Positive(args[1]) /\ Num(args[1]) < Den(args[1]))
        => \A rho2 \in Rhos :
              /\ (Lt(args[1], rho2) /\ Lt(rho2, One))
                    => \/ Lt(ret, calculate_lq(rho2, args[2]))
                       \/ calculate_lq(rho2, args[2]) = OverflowError
              /\ Ge(rho2, One)
                    => /\ calculate_lq(rho2, args[2]) = Inf(1)
                       /\ (Lt(ret, Inf(1)) \/ ret = OverflowError)

-----------------------------------------------------------------------------
(* C10 *)

\* C10: on a stable input no exception escapes from a sweep function; it
\* returns NaN when a step of the computation overflows, and a finite number
\* >= 0 otherwise.
C10_SweepNeverRaises ==
    StableSweep
        => /\ ~IsErr(ret)
           /\ IsNaN(ret) \/ NonNeg(ret)
           /\ IsErr(LqOf(args[1], args[2], args[3])) => IsNaN(ret)

\* The same for server counts that convert to a float; there NaN is returned
\* exactly when a power or a factorial leaves the float range.
SweepNeverRaisesConvertible ==
    (StableSweep /\ Convertible(args[3]))
        => /\ ~IsErr(ret)
           /\ IsNaN(ret) \/ NonNeg(ret)
           /\ IsNaN(ret) <=> LqOf(args[1], args[2], args[3]) = OverflowError

=============================================================================
